---- MODULE Spec2Model ----
(***************************************************************************)
(* Model of src/time2word.py: the deterministic minute-label generator.    *)
(*                                                                         *)
(* The module body runs top to bottom when the file is imported: it builds *)
(* permuted_mapping (create_permuted_mapping), then the 1440-entry table   *)
(* all_words, and afterwards callers use get_word and                      *)
(* minute_to_scrambled_word.  A process may exit and a fresh process may   *)
(* import the module again.                                                *)
(*                                                                         *)
(* The module body is modelled at two grains: one loop iteration per step  *)
(* (PositionBegin .. BuildDone), and the whole import in one step          *)
(* (Import).  Both end in the same state (ImportIsBuild).                  *)
(*                                                                         *)
(* Python integers are unbounded.  They are modelled as little-endian      *)
(* sequences of bytes without high zero bytes (<<>> is 0), so that a value *)
(* of 2^32 or more is representable and a missing mask is visible.         *)
(***************************************************************************)
EXTENDS Integers, Sequences, FiniteSets, TLC

VARIABLES
    pc,               \* position of the module body / process
    clock,            \* what datetime.now() would give this process (imported, line 1)
    prev,             \* output of the previous process, kept by an observer
    word_banks,       \* global, lines 5-30
    pos,              \* create_permuted_mapping: loop variable, line 37
    perm,             \* create_permuted_mapping: local, line 39
    hash_val,         \* create_permuted_mapping: local, line 43
    i,                \* create_permuted_mapping: loop variable, line 46
    mapping,          \* create_permuted_mapping: local, line 35
    permuted_mapping, \* global, line 57
    minute,           \* module-level loop variable, line 89
    all_words,        \* global, line 86
    unique_check,     \* global, line 87
    call,             \* the most recently returned call: arguments, locals, result
    data_json,        \* generate.py: the file COLLECTIONS_PATH, line 7
    audio_tree,       \* generate.py: the files under AUDIO_ROOT, line 6
    runs,             \* generate.py: how many times main() has run
    last_run,         \* generate.py: whether main() has run, and the tree is as it was then
    fs,               \* build.py, generate_directory.py: the files under the scanned root
    gitignore,        \* build.py, generate_directory.py: the lines of .gitignore
    structure,        \* build.py, generate_directory.py: what get_directory_structure returned
    scans             \* build.py, generate_directory.py: how many scans have run

vars == <<pc, clock, prev, word_banks, pos, perm, hash_val, i, mapping,
          permuted_mapping, minute, all_words, unique_check, call>>

\* the state of generate.py
catalog_vars == <<data_json, audio_tree, runs, last_run>>

\* the state of build.py and generate_directory.py
directory_vars == <<fs, gitignore, structure, scans>>

\* generate.py has not run and has nothing to scan
CatalogIdle ==
    /\ data_json = [exists |-> FALSE, collections |-> <<>>]
    /\ audio_tree = {}
    /\ runs = 0
    /\ last_run = [ran |-> FALSE, tree_unchanged |-> FALSE]

\* there is no .gitignore file
NoGitignore == [exists |-> FALSE, lines |-> <<>>]

\* get_directory_structure has not returned yet
NotScanned == [ran |-> FALSE, program |-> "", patterns |-> <<>>, listed |-> {}]

\* build.py and generate_directory.py have not run and have nothing to scan
DirectoryIdle ==
    /\ fs = {}
    /\ gitignore = NoGitignore
    /\ structure = NotScanned
    /\ scans = 0

\* time2word.py has not been imported
TimeIdle ==
    /\ pc = "idle"
    /\ clock = 0
    /\ prev = [set |-> FALSE, permuted_mapping |-> <<>>, all_words |-> <<>>]
    /\ word_banks = <<>>
    /\ pos = 0
    /\ perm = <<>>
    /\ hash_val = <<>>
    /\ i = 0
    /\ mapping = <<>>
    /\ permuted_mapping = <<>>
    /\ minute = 0
    /\ all_words = <<>>
    /\ unique_check = {}
    /\ call = [caller |-> 0, fn |-> "none", args |-> <<>>, exc |-> "None", value |-> <<>>,
               vals |-> <<>>, idxs |-> <<>>, parts |-> <<>>]

(***************************************************************************)
(* Bounds of the model.                                                    *)
(***************************************************************************)
\* number of times the process is started again after the first run
MaxRestarts == 1
\* number of times main() of generate.py runs
MaxRuns == 2
\* number of files under AUDIO_ROOT at any time
MaxFiles == 2
\* number of scans of the script directory
MaxScans == 2
\* number of files under the script directory at any time
MaxItems == 2
\* number of callers using the module after construction
NumReaders == 2
\* how far outside [0,23] the hour arguments of get_word range
HourSlack == 1
\* how far outside [0,59] the minute arguments of get_word range
MinuteSlack == 1

Readers == 1..NumReaders
HourArgs == (0 - HourSlack)..(23 + HourSlack)
MinuteArgs == (0 - MinuteSlack)..(59 + MinuteSlack)
\* the arguments callers pass to minute_to_scrambled_word after construction
\* (the build itself calls it with every minute of the day)
ScrambleArgs == {0, 1, 59, 60, 719, 720, 1438, 1439}

(***************************************************************************)
(* Program constants.                                                      *)
(***************************************************************************)
NumPositions == 5
NumMinutes == 1440

Max(a, b) == IF a >= b THEN a ELSE b

(***************************************************************************)
(* Python int arithmetic on non-negative integers, base 256.               *)
(***************************************************************************)
RECURSIVE Norm(_)
Norm(x) ==
    IF x = <<>> THEN <<>>
    ELSE IF x[Len(x)] = 0 THEN Norm(SubSeq(x, 1, Len(x) - 1))
    ELSE x

RECURSIVE IntToBytes(_)
IntToBytes(n) ==
    IF n = 0 THEN <<>> ELSE <<n % 256>> \o IntToBytes(n \div 256)

ByteAt(x, j) == IF j <= Len(x) THEN x[j] ELSE 0

RECURSIVE AddCarry(_, _, _)
AddCarry(a, b, c) ==
    IF a = <<>> /\ b = <<>> THEN IntToBytes(c)
    ELSE LET s == ByteAt(a, 1) + ByteAt(b, 1) + c
         IN  <<s % 256>> \o AddCarry(IF a = <<>> THEN <<>> ELSE Tail(a),
                                     IF b = <<>> THEN <<>> ELSE Tail(b),
                                     s \div 256)

\* a + b
Add(a, b) == Norm(AddCarry(a, b, 0))

RECURSIVE MulByte(_, _, _)
MulByte(a, d, c) ==
    IF a = <<>> THEN IntToBytes(c)
    ELSE LET s == a[1] * d + c
         IN  <<s % 256>> \o MulByte(Tail(a), d, s \div 256)

RECURSIVE Mul(_, _)
\* a * b
Mul(a, b) ==
    IF b = <<>> THEN <<>>
    ELSE LET rest == Mul(a, Tail(b))
         IN  Add(Norm(MulByte(a, b[1], 0)),
                 IF rest = <<>> THEN <<>> ELSE <<0>> \o rest)

RECURSIVE AndN(_, _)
AndN(a, b) ==
    IF a = 0 \/ b = 0 THEN 0
    ELSE (a % 2) * (b % 2) + 2 * AndN(a \div 2, b \div 2)

RECURSIVE OrN(_, _)
OrN(a, b) ==
    IF a = 0 /\ b = 0 THEN 0
    ELSE Max(a % 2, b % 2) + 2 * OrN(a \div 2, b \div 2)

RECURSIVE XorN(_, _)
XorN(a, b) ==
    IF a = 0 /\ b = 0 THEN 0
    ELSE (((a % 2) + (b % 2)) % 2) + 2 * XorN(a \div 2, b \div 2)

\* a & b
BitAnd(a, b) ==
    Norm([j \in 1..Max(Len(a), Len(b)) |-> AndN(ByteAt(a, j), ByteAt(b, j))])

\* a | b
BitOr(a, b) ==
    Norm([j \in 1..Max(Len(a), Len(b)) |-> OrN(ByteAt(a, j), ByteAt(b, j))])

\* a ^ b
BitXor(a, b) ==
    Norm([j \in 1..Max(Len(a), Len(b)) |-> XorN(ByteAt(a, j), ByteAt(b, j))])

RECURSIVE Pow2N(_)
Pow2N(k) == IF k = 0 THEN 1 ELSE 2 * Pow2N(k - 1)

\* 2 ** k
Pow2(k) == [j \in 1..(k \div 8) |-> 0] \o <<Pow2N(k % 8)>>

\* a << k
Shl(a, k) == Mul(a, Pow2(k))

\* a >> k
Shr(a, k) ==
    LET d == k \div 8
        r == k % 8
        b == IF d >= Len(a) THEN <<>> ELSE SubSeq(a, d + 1, Len(a))
    IN  Norm([j \in 1..Len(b) |->
                (b[j] \div Pow2N(r)) + (ByteAt(b, j + 1) % Pow2N(r)) * Pow2N(8 - r)])

RECURSIVE ModN(_, _)
\* a % n for a small positive n
ModN(a, n) ==
    IF a = <<>> THEN 0 ELSE (ModN(Tail(a), n) * 256 + a[1]) % n

HexDigits == "0123456789ABCDEF"

HexDigit(c) == (CHOOSE d \in 1..16 : SubSeq(HexDigits, d, d) = c) - 1

RECURSIVE HexBytes(_)
HexBytes(s) ==
    IF Len(s) = 0 THEN <<>>
    ELSE IF Len(s) = 1 THEN <<HexDigit(s)>>
    ELSE <<16 * HexDigit(SubSeq(s, Len(s) - 1, Len(s) - 1))
             + HexDigit(SubSeq(s, Len(s), Len(s)))>>
         \o HexBytes(SubSeq(s, 1, Len(s) - 2))

\* the integer literal 0x<s>
Hex(s) == Norm(HexBytes(s))

(***************************************************************************)
(* The word banks, lines 5-30.                                             *)
(***************************************************************************)
WordBanks ==
    << <<"Alpha", "Brave", "Cosmic", "Digital", "Electric", "Frozen", "Golden",
         "Hidden", "Iron", "Jade", "Mystic", "Noble", "Omega", "Prime", "Quantum",
         "Royal", "Solar", "Titan", "Ultra", "Void", "Wild", "Xeno", "Zenith">>,
       <<"Lion", "Dragon", "Eagle", "Phoenix", "Tiger", "Wolf", "Hawk",
         "Falcon", "Raven", "Owl", "Shark", "Bear", "Fox", "Panther", "Griffin",
         "Basilisk", "Chimera", "Hydra", "Kraken", "Manticore", "Pegasus", "Unicorn">>,
       <<"Stone", "Fire", "Storm", "Blade", "Shield", "Star", "Moon",
         "Sun", "Wave", "Flame", "Ice", "Light", "Shadow", "Metal", "Crystal",
         "Earth", "Air", "Water", "Energy", "Plasma", "Vortex", "Nova">>,
       <<"Bolt", "X", "Mark", "Core", "Edge", "Shift", "Pulse", "Spark",
         "Surge", "Flux", "Beam", "Ray", "Field", "Ring", "Disk",
         "Node", "Gate", "Key", "Lock", "Chain", "Grid", "Web">>,
       <<"Alpha", "Beta", "Gamma", "Delta", "Epsilon", "Zeta", "Eta", "Theta",
         "Iota", "Kappa", "Lambda", "Mu", "Nu", "Xi", "Omicron",
         "Pi", "Rho", "Sigma", "Tau", "Upsilon", "Phi", "Chi", "Psi", "Omega">> >>

(***************************************************************************)
(* Python list operations.  A result carries the exception raised ("None"  *)
(* when there is none) and the value as a sequence of zero or one element. *)
(***************************************************************************)
\* list[k]: a negative k counts from the end, anything else out of range raises
ListGetItem(list, k) ==
    IF k >= 0 /\ k < Len(list)
        THEN [exc |-> "None", value |-> <<list[k + 1]>>]
    ELSE IF k < 0 /\ k >= 0 - Len(list)
        THEN [exc |-> "None", value |-> <<list[Len(list) + k + 1]>>]
    ELSE [exc |-> "IndexError", value |-> <<>>]

\* list(range(n))
ListRange(n) == [j \in 1..n |-> j - 1]

\* list.append(x)
ListAppend(list, x) == Append(list, x)

\* list[a], list[b] = list[b], list[a]  (a, b are 0-based and in range)
ListSwap(list, a, b) ==
    [list EXCEPT ![a + 1] = list[b + 1], ![b + 1] = list[a + 1]]

RECURSIVE JoinTrailing(_, _)
\* a join that also puts the separator after the last part
JoinTrailing(sep, parts) ==
    IF parts = <<>> THEN ""
    ELSE parts[1] \o sep \o JoinTrailing(sep, Tail(parts))

RECURSIVE Join(_, _)
\* sep.join(parts)
Join(sep, parts) ==
    IF parts = <<>> THEN ""
    ELSE IF Len(parts) = 1 THEN parts[1]
    ELSE parts[1] \o sep \o Join(sep, Tail(parts))

RECURSIVE Str(_)
\* str(n) of a non-negative int, as an f-string formats it
Str(n) ==
    IF n < 10 THEN SubSeq(HexDigits, n + 1, n + 1)
    ELSE Str(n \div 10) \o SubSeq(HexDigits, (n % 10) + 1, (n % 10) + 1)

(***************************************************************************)
(* hashlib.md5(seed).digest(): the digests of the seeds the program can    *)
(* form, as computed by hashlib (keys "position_<p>_<c>" are the digests   *)
(* of seeds that carry a clock reading c instead of the word "seed").      *)
(***************************************************************************)
MD5Digests ==
    [s \in {"position_0_seed", "position_1_seed", "position_2_seed",
            "position_3_seed", "position_4_seed",
            "position_0_0", "position_1_0", "position_2_0", "position_3_0",
            "position_4_0",
            "position_0_1", "position_1_1", "position_2_1", "position_3_1",
            "position_4_1",
            "position_0_2", "position_1_2", "position_2_2", "position_3_2",
            "position_4_2"} |->
      CASE s = "position_0_seed" -> <<180, 250, 242, 92, 234, 84, 193, 254, 159, 224, 239, 59, 245, 121, 19, 106>>
        [] s = "position_1_seed" -> <<127, 110, 148, 18, 250, 193, 46, 39, 94, 145, 61, 224, 106, 170, 246, 22>>
        [] s = "position_2_seed" -> <<91, 36, 193, 145, 236, 155, 189, 177, 129, 99, 85, 102, 93, 12, 9, 165>>
        [] s = "position_3_seed" -> <<96, 43, 2, 72, 249, 181, 197, 214, 180, 239, 48, 104, 166, 196, 237, 159>>
        [] s = "position_4_seed" -> <<146, 110, 218, 129, 234, 206, 169, 31, 35, 51, 38, 154, 57, 5, 58, 110>>
        [] s = "position_0_0" -> <<160, 172, 43, 83, 198, 159, 150, 202, 57, 160, 83, 67, 102, 116, 139, 204>>
        [] s = "position_1_0" -> <<223, 104, 151, 19, 28, 129, 183, 104, 153, 177, 112, 119, 84, 227, 46, 243>>
        [] s = "position_2_0" -> <<33, 192, 236, 52, 203, 250, 36, 62, 81, 27, 122, 108, 174, 193, 123, 178>>
        [] s = "position_3_0" -> <<37, 152, 26, 99, 173, 87, 255, 140, 20, 179, 139, 254, 48, 138, 164, 169>>
        [] s = "position_4_0" -> <<241, 31, 21, 130, 32, 97, 184, 189, 72, 250, 182, 63, 59, 51, 108, 233>>
        [] s = "position_0_1" -> <<186, 170, 82, 179, 105, 151, 183, 6, 93, 235, 64, 44, 141, 244, 245, 202>>
        [] s = "position_1_1" -> <<242, 95, 64, 226, 200, 244, 169, 219, 41, 141, 89, 137, 22, 2, 103, 242>>
        [] s = "position_2_1" -> <<156, 22, 169, 1, 184, 177, 72, 255, 32, 228, 71, 171, 147, 116, 169, 94>>
        [] s = "position_3_1" -> <<58, 0, 157, 46, 177, 227, 30, 45, 202, 197, 105, 51, 206, 235, 72, 251>>
        [] s = "position_4_1" -> <<81, 167, 234, 3, 224, 42, 183, 11, 160, 109, 217, 243, 42, 248, 112, 69>>
        [] s = "position_0_2" -> <<188, 160, 4, 75, 25, 77, 254, 126, 36, 176, 98, 69, 205, 57, 103, 159>>
        [] s = "position_1_2" -> <<49, 151, 86, 155, 22, 76, 225, 32, 111, 109, 187, 246, 195, 39, 175, 220>>
        [] s = "position_2_2" -> <<54, 22, 72, 150, 112, 210, 70, 212, 140, 33, 13, 141, 182, 121, 225, 165>>
        [] s = "position_3_2" -> <<128, 32, 157, 41, 175, 31, 37, 165, 195, 27, 30, 79, 177, 164, 87, 153>>
        [] s = "position_4_2" -> <<76, 202, 111, 118, 122, 184, 200, 220, 22, 224, 241, 93, 124, 67, 92, 21>>]

\* hashlib.md5(seed).digest(), line 43
MD5(seed) == MD5Digests[seed]

\* a seed that depends on when the process runs
SeedFromClock(p) == "position_" \o Str(p) \o "_" \o Str(clock)

\* f"position_{pos}_seed", line 42
Seed(p) == "position_" \o Str(p) \o "_seed"

(***************************************************************************)
(* create_permuted_mapping, lines 32-54: one step of the shuffle.          *)
(***************************************************************************)
\* line 48: byte_idx = i % len(hash_val)
ByteIdx(h, k) == k % Len(h)

\* a target always taken from the first byte of the digest
SwapTargetFirstByte(h, k) == h[1] % (k + 1)

\* line 49: j = hash_val[byte_idx] % (i + 1)
SwapTarget(h, k) == h[ByteIdx(h, k) + 1] % (k + 1)

\* a swap that loses the value at i: perm[i] = perm[j]
ShuffleOverwrite(list, h, k) ==
    [list EXCEPT ![k + 1] = list[SwapTarget(h, k) + 1]]

\* lines 48-50: the body of the shuffle loop at index k
ShuffleSwap(list, h, k) == ListSwap(list, k, SwapTarget(h, k))

RECURSIVE Shuffle(_, _, _)
\* lines 46-50: the whole loop, for i = k down to 1
Shuffle(list, h, k) ==
    IF k < 1 THEN list ELSE Shuffle(ShuffleSwap(list, h, k), h, k - 1)

RECURSIVE CreateLoop(_, _, _)
\* lines 37-52: the position loop from position p on, with the mapping so far
CreateLoop(banks, p, m) ==
    IF p >= NumPositions THEN m
    ELSE CreateLoop(banks, p + 1,
             ListAppend(m, Shuffle(ListRange(Len(banks[p + 1])), MD5(Seed(p)),
                                   Len(banks[p + 1]) - 1)))

\* lines 32-54: the mapping create_permuted_mapping returns, banks being the
\* global word_banks
create_permuted_mapping(banks) == CreateLoop(banks, 0, <<>>)

(***************************************************************************)
(* minute_to_scrambled_word, lines 59-83.  mn is the argument minute.      *)
(***************************************************************************)
\* the integer literals of lines 67-75
K_6D2B79F5 == Hex("6D2B79F5")
K_FFFFFFFF == Hex("FFFFFFFF")
K_DEADBEEF == Hex("DEADBEEF")
K_19660D == Hex("19660D")
K_3C6EF35F == Hex("3C6EF35F")
K_55555555 == Hex("55555555")
K_AAAAAAAA == Hex("AAAAAAAA")

\* the product without the mask
Val0Unmasked(mn) == Mul(IntToBytes(mn), K_6D2B79F5)

\* line 67
Val0(mn) == BitAnd(Mul(IntToBytes(mn), K_6D2B79F5), K_FFFFFFFF)

\* a rotation by 12 bits
Val1Rotate12(mn) ==
    BitAnd(BitOr(Shl(IntToBytes(mn), 12), Shr(IntToBytes(mn), 20)), K_FFFFFFFF)

\* a rotation in the other direction
Val1RotateRight(mn) ==
    BitAnd(BitOr(Shr(IntToBytes(mn), 13), Shl(IntToBytes(mn), 19)), K_FFFFFFFF)

\* line 69
Val1(mn) ==
    BitAnd(BitOr(Shl(IntToBytes(mn), 13), Shr(IntToBytes(mn), 19)), K_FFFFFFFF)

\* line 71
Val2(mn) == BitXor(IntToBytes(mn), K_DEADBEEF)

\* line 73
Val3(mn) ==
    BitAnd(Add(Mul(IntToBytes(mn), K_19660D), K_3C6EF35F), K_FFFFFFFF)

\* line 75
Val4(mn) ==
    BitOr(Shl(BitAnd(IntToBytes(mn), K_55555555), 1),
          Shr(BitAnd(IntToBytes(mn), K_AAAAAAAA), 1))

\* every position transforms the hour alone
ValOfHour(mn, p) == IntToBytes(mn \div 60)

\* lines 66-75: the transform of position p
Val(mn, p) ==
    IF p = 0 THEN Val0(mn)
    ELSE IF p = 1 THEN Val1(mn)
    ELSE IF p = 2 THEN Val2(mn)
    ELSE IF p = 3 THEN Val3(mn)
    ELSE Val4(mn)

\* Val over the arguments the program passes, computed once
ValTable ==
    [mn \in 0..(NumMinutes - 1) |-> [p \in 0..(NumPositions - 1) |-> Val(mn, p)]]

\* a modulus one too large
IndexWide(val, n) == ModN(val, n + 1)

\* line 80: idx = val % len(word_list)
Index(val, n) == ModN(val, n)

\* the locals of a call before the loop, line 61
EmptyFrame == [exc |-> "None", vals |-> <<>>, idxs |-> <<>>, parts |-> <<>>]

\* line 81: word_list[perm[idx]], given the result pi of perm[idx]
WordAt(word_list, pi) ==
    IF pi.exc = "None" THEN ListGetItem(word_list, pi.value[1]) ELSE pi

\* line 81: parts.append(w), unless the subscripts raised
Appended(fr, val, idx, w) ==
    [exc |-> w.exc,
     vals |-> Append(fr.vals, val),
     idxs |-> Append(fr.idxs, idx),
     parts |-> IF w.exc = "None" THEN ListAppend(fr.parts, w.value[1]) ELSE fr.parts]

\* lines 80-81, given idx
Selected(fr, val, idx, word_list, prm) ==
    Appended(fr, val, idx, WordAt(word_list, ListGetItem(prm, idx)))

\* lines 78-81, given val
Mapped(fr, val, word_list, prm) ==
    Selected(fr, val, Index(val, Len(word_list)), word_list, prm)

\* lines 65-81: the body of the loop at position p; banks and prm are the
\* globals word_banks and permuted_mapping the call reads
ScrambleBody(banks, prm, mn, p, fr) ==
    Mapped(fr, ValTable[mn][p], banks[p + 1], prm[p + 1])

RECURSIVE ScrambleLoop(_, _, _, _, _)
\* lines 64-81: the loop from position p on; an exception ends it
ScrambleLoop(banks, prm, mn, p, fr) ==
    IF p >= NumPositions \/ fr.exc # "None" THEN fr
    ELSE ScrambleLoop(banks, prm, mn, p + 1, ScrambleBody(banks, prm, mn, p, fr))

\* line 83, and what the call leaves behind
Returned(banks, prm, fr) ==
    [exc |-> fr.exc,
     value |-> IF fr.exc = "None" THEN <<Join("<br>", fr.parts)>> ELSE <<>>,
     vals |-> fr.vals, idxs |-> fr.idxs, parts |-> fr.parts,
     word_banks |-> banks, permuted_mapping |-> prm]

\* lines 59-83 run with the globals banks and prm
Scrambled(banks, prm, mn) ==
    Returned(banks, prm, ScrambleLoop(banks, prm, mn, 0, EmptyFrame))

\* lines 59-83: the result, the locals at the end, and the globals afterwards
minute_to_scrambled_word(mn) == Scrambled(word_banks, permuted_mapping, mn)

\* the new label is put in front: all_words.insert(0, word)
InsertWordFirst(words, word) == <<word>> \o words

\* line 91: all_words.append(word)
AppendWord(words, word) == ListAppend(words, word)

\* a set that keeps only the label added last
UniqueReplace(seen, word) == {word}

\* line 92: unique_check.add(word)
UniqueAdd(seen, word) == seen \cup {word}

\* lines 86-87: the table and the set before the loop
EmptyBuild == [exc |-> "None", words |-> <<>>, seen |-> {}, last |-> EmptyFrame]

\* lines 90-92: the table and the set after the call for one minute returned
\* w or raised
Built(r, w) ==
    [exc |-> w.exc,
     words |-> IF w.exc = "None" THEN AppendWord(r.words, w.value[1]) ELSE r.words,
     seen |-> IF w.exc = "None" THEN UniqueAdd(r.seen, w.value[1]) ELSE r.seen,
     last |-> w]

RECURSIVE BuildRange(_, _, _, _, _)
\* lines 89-92 for minute in range(lo, hi): the iterations of range(lo, mid)
\* and then those of range(mid, hi); the loop stops at the first call that
\* raises
BuildRange(banks, prm, lo, hi, r) ==
    IF lo >= hi \/ r.exc # "None" THEN r
    ELSE IF hi = lo + 1 THEN Built(r, Scrambled(banks, prm, lo))
    ELSE BuildRange(banks, prm, (lo + hi) \div 2, hi,
                    BuildRange(banks, prm, lo, (lo + hi) \div 2, r))

\* lines 86-92: the table built from nothing
BuildLoop(banks, prm) == BuildRange(banks, prm, 0, NumMinutes, EmptyBuild)

(***************************************************************************)
(* get_word, lines 94-95.                                                  *)
(***************************************************************************)
\* a subscript that counts entries from 1
GetWordIndexFromOne(h, mn) == h * 60 + mn + 1

\* the subscript of line 95
GetWordIndex(h, mn) == h * 60 + mn

\* list.pop(k) in place of list[k]: the list without the entry returned
Popped(list, k, r) ==
    [exc |-> r.exc, value |-> r.value,
     all_words |-> IF r.exc = "None"
                   THEN [j \in 1..(Len(list) - 1) |->
                           IF j < (IF k >= 0 THEN k + 1 ELSE Len(list) + k + 1)
                           THEN list[j] ELSE list[j + 1]]
                   ELSE list]

\* a lookup that removes the entry it returns: all_words.pop(index)
get_word_pop(h, mn) ==
    Popped(all_words, GetWordIndex(h, mn), ListGetItem(all_words, GetWordIndex(h, mn)))

\* line 95: the value of the subscript, and the global all_words afterwards
Looked(r) == [exc |-> r.exc, value |-> r.value, all_words |-> all_words]

\* the result and the global all_words afterwards
get_word(h, mn) == Looked(ListGetItem(all_words, GetWordIndex(h, mn)))

(***************************************************************************)
(* The state machine.                                                      *)
(***************************************************************************)
NoCall ==
    [caller |-> 0, fn |-> "none", args |-> <<>>, exc |-> "None", value |-> <<>>,
     vals |-> <<>>, idxs |-> <<>>, parts |-> <<>>]

NoPrev == [set |-> FALSE, permuted_mapping |-> <<>>, all_words |-> <<>>]

\* a fresh process about to run line 57
Fresh ==
    /\ pc = "for_pos"
    /\ word_banks = WordBanks
    /\ pos = 0
    /\ perm = <<>>
    /\ hash_val = <<>>
    /\ i = 0
    /\ mapping = <<>>
    /\ permuted_mapping = <<>>
    /\ minute = 0
    /\ all_words = <<>>
    /\ unique_check = {}
    /\ call = NoCall

Init ==
    /\ Fresh
    /\ clock = 0
    /\ prev = NoPrev
    /\ CatalogIdle
    /\ DirectoryIdle

\* lines 37-43: the head of the position loop
PositionBegin ==
    /\ pc = "for_pos"
    /\ pos < NumPositions
    /\ perm' = ListRange(Len(word_banks[pos + 1]))
    /\ hash_val' = MD5(Seed(pos))
    /\ i' = Len(word_banks[pos + 1]) - 1
    /\ pc' = "shuffle"
    /\ UNCHANGED <<clock, prev, word_banks, pos, mapping, permuted_mapping,
                   minute, all_words, unique_check, call>>
    /\ UNCHANGED <<catalog_vars, directory_vars>>

\* lines 46-50: one iteration of range(len(perm)-1, 0, -1)
ShuffleStep ==
    /\ pc = "shuffle"
    /\ i >= 1
    /\ perm' = ShuffleSwap(perm, hash_val, i)
    /\ i' = i - 1
    /\ UNCHANGED <<pc, clock, prev, word_banks, pos, hash_val, mapping,
                   permuted_mapping, minute, all_words, unique_check, call>>
    /\ UNCHANGED <<catalog_vars, directory_vars>>

\* line 52, and the next position
PositionEnd ==
    /\ pc = "shuffle"
    /\ i < 1
    /\ mapping' = ListAppend(mapping, perm)
    /\ pos' = pos + 1
    /\ pc' = "for_pos"
    /\ UNCHANGED <<clock, prev, word_banks, perm, hash_val, i, permuted_mapping,
                   minute, all_words, unique_check, call>>
    /\ UNCHANGED <<catalog_vars, directory_vars>>

\* lines 54, 57, 86, 87
CreateReturn ==
    /\ pc = "for_pos"
    /\ pos >= NumPositions
    /\ permuted_mapping' = mapping
    /\ all_words' = <<>>
    /\ unique_check' = {}
    /\ minute' = 0
    /\ pc' = "build"
    /\ UNCHANGED <<clock, prev, word_banks, pos, perm, hash_val, i, mapping, call>>
    /\ UNCHANGED <<catalog_vars, directory_vars>>

\* lines 89-92: one iteration of the build loop; an exception ends the process
BuildStep ==
    /\ pc = "build"
    /\ minute < NumMinutes
    /\ \E r \in {minute_to_scrambled_word(minute)} :
           /\ call' = [caller |-> 0, fn |-> "minute_to_scrambled_word",
                       args |-> <<minute>>, exc |-> r.exc, value |-> r.value,
                       vals |-> r.vals, idxs |-> r.idxs, parts |-> r.parts]
           /\ word_banks' = r.word_banks
           /\ permuted_mapping' = r.permuted_mapping
           /\ IF r.exc = "None"
              THEN /\ all_words' = AppendWord(all_words, r.value[1])
                   /\ unique_check' = UniqueAdd(unique_check, r.value[1])
                   /\ minute' = minute + 1
                   /\ pc' = pc
              ELSE /\ pc' = "crashed"
                   /\ UNCHANGED <<all_words, unique_check, minute>>
    /\ UNCHANGED <<clock, prev, pos, perm, hash_val, i, mapping>>
    /\ UNCHANGED <<catalog_vars, directory_vars>>

\* the range of line 89 is exhausted: the import is complete
BuildDone ==
    /\ pc = "build"
    /\ minute >= NumMinutes
    /\ pc' = "ready"
    /\ call' = NoCall
    /\ UNCHANGED <<clock, prev, word_banks, pos, perm, hash_val, i, mapping,
                   permuted_mapping, minute, all_words, unique_check>>
    /\ UNCHANGED <<catalog_vars, directory_vars>>

\* lines 1-92 in one step: import runs the module body without interruption
Import ==
    /\ pc = "for_pos"
    /\ pos = 0
    /\ \E m \in {create_permuted_mapping(word_banks)} :
         \E r \in {BuildLoop(word_banks, m)} :
             /\ pos' = NumPositions
             /\ perm' = m[NumPositions]
             /\ hash_val' = MD5(Seed(NumPositions - 1))
             /\ i' = 0
             /\ mapping' = m
             /\ permuted_mapping' = m
             /\ all_words' = r.words
             /\ unique_check' = r.seen
             /\ minute' = Len(r.words)
             /\ IF r.exc = "None"
                THEN /\ pc' = "ready"
                     /\ call' = NoCall
                ELSE /\ pc' = "crashed"
                     /\ call' = [caller |-> 0, fn |-> "minute_to_scrambled_word",
                                 args |-> <<Len(r.words)>>, exc |-> r.exc,
                                 value |-> r.last.value, vals |-> r.last.vals,
                                 idxs |-> r.last.idxs, parts |-> r.last.parts]
    /\ UNCHANGED <<clock, prev, word_banks>>
    /\ UNCHANGED <<catalog_vars, directory_vars>>

\* a caller rd runs get_word(h, mn)
ReaderGetWord ==
    /\ pc = "ready"
    /\ call = NoCall
    /\ \E rd \in Readers, h \in HourArgs, mn \in MinuteArgs :
         \E r \in {get_word(h, mn)} :
             /\ call' = [caller |-> rd, fn |-> "get_word", args |-> <<h, mn>>,
                         exc |-> r.exc, value |-> r.value,
                         vals |-> <<>>, idxs |-> <<>>, parts |-> <<>>]
             /\ all_words' = r.all_words
    /\ UNCHANGED <<pc, clock, prev, word_banks, pos, perm, hash_val, i, mapping,
                   permuted_mapping, minute, unique_check>>
    /\ UNCHANGED <<catalog_vars, directory_vars>>

\* a caller rd runs minute_to_scrambled_word(mn)
ReaderScramble ==
    /\ pc = "ready"
    /\ call = NoCall
    /\ \E rd \in Readers, mn \in ScrambleArgs :
         \E r \in {minute_to_scrambled_word(mn)} :
             /\ call' = [caller |-> rd, fn |-> "minute_to_scrambled_word",
                         args |-> <<mn>>, exc |-> r.exc, value |-> r.value,
                         vals |-> r.vals, idxs |-> r.idxs, parts |-> r.parts]
             /\ word_banks' = r.word_banks
             /\ permuted_mapping' = r.permuted_mapping
    /\ UNCHANGED <<pc, clock, prev, pos, perm, hash_val, i, mapping,
                   minute, all_words, unique_check>>
    /\ UNCHANGED <<catalog_vars, directory_vars>>

\* the caller takes the result (or handles the exception) and goes on
ReaderResume ==
    /\ pc = "ready"
    /\ call # NoCall
    /\ call' = NoCall
    /\ UNCHANGED <<pc, clock, prev, word_banks, pos, perm, hash_val, i, mapping,
                   permuted_mapping, minute, all_words, unique_check>>
    /\ UNCHANGED <<catalog_vars, directory_vars>>

\* the process exits and a fresh one imports the module, lines 1-95 again;
\* an observer keeps what the finished process had built
Restart ==
    /\ pc = "ready"
    /\ call = NoCall
    /\ clock < MaxRestarts
    /\ clock' = clock + 1
    /\ prev' = [set |-> TRUE, permuted_mapping |-> permuted_mapping,
                all_words |-> all_words]
    /\ pc' = "for_pos"
    /\ word_banks' = WordBanks
    /\ pos' = 0
    /\ perm' = <<>>
    /\ hash_val' = <<>>
    /\ i' = 0
    /\ mapping' = <<>>
    /\ permuted_mapping' = <<>>
    /\ minute' = 0
    /\ all_words' = <<>>
    /\ unique_check' = {}
    /\ call' = NoCall
    /\ UNCHANGED <<catalog_vars, directory_vars>>

Next ==
    \/ PositionBegin
    \/ ShuffleStep
    \/ PositionEnd
    \/ CreateReturn
    \/ BuildStep
    \/ BuildDone
    \/ Import
    \/ ReaderGetWord
    \/ ReaderScramble
    \/ ReaderResume
    \/ Restart

Spec == Init /\ [][Next]_vars

(***************************************************************************)
(* Properties.                                                             *)
(***************************************************************************)
IsScramble == call.fn = "minute_to_scrambled_word"

IsGetWord == call.fn = "get_word"

ValidTime(h, mn) == h \in 0..23 /\ mn \in 0..59

\* every index of [0, n) appears in list, whose length is n (so exactly once)
IsBijection(list, n) ==
    /\ Len(list) = n
    /\ {list[j] : j \in 1..n} = 0..(n - 1)

\* bit k of the integer x
Bit(x, k) == (ByteAt(x, (k \div 8) + 1) \div Pow2N(k % 8)) % 2

RECURSIVE Find(_, _, _)
\* the first place at or after k where sep occurs in s, or 0
Find(s, sep, k) ==
    IF k + Len(sep) - 1 > Len(s) THEN 0
    ELSE IF SubSeq(s, k, k + Len(sep) - 1) = sep THEN k
    ELSE Find(s, sep, k + 1)

RECURSIVE Split(_, _)
\* the pieces of s between the occurrences of sep
Split(s, sep) ==
    LET j == Find(s, sep, 1)
    IN  IF j = 0 THEN <<s>>
        ELSE <<SubSeq(s, 1, j - 1)>> \o Split(SubSeq(s, j + Len(sep), Len(s)), sep)

\* the module body run in one step ends where the same lines run one loop
\* iteration at a time end
ImportIsBuild ==
    (pc = "ready" /\ call = NoCall) =>
        /\ permuted_mapping = create_permuted_mapping(word_banks)
        /\ all_words = BuildLoop(word_banks, permuted_mapping).words
        /\ unique_check = {all_words[m] : m \in 1..NumMinutes}
        /\ pos = NumPositions /\ i = 0 /\ minute = NumMinutes
        /\ mapping = permuted_mapping
        /\ perm = mapping[NumPositions]
        /\ hash_val = MD5(Seed(NumPositions - 1))

C2_OutOfRangeRejected ==
    (IsGetWord /\ ~ValidTime(call.args[1], call.args[2])) => call.exc # "None"

\* C3: for hour in [0,23] and minute in [0,59], get_word(hour, minute)
\* succeeds and returns all_words[hour*60+minute], which is
\* minute_to_scrambled_word(hour*60+minute); get_word(0,0) is the first built
\* label and get_word(23,59) is all_words[1439].
C3_LookupTotal ==
    (IsGetWord /\ ValidTime(call.args[1], call.args[2])) =>
        LET h == call.args[1]
            mn == call.args[2]
        IN  /\ call.exc = "None"
            /\ call.value = <<all_words[h * 60 + mn + 1]>>
            /\ call.value = minute_to_scrambled_word(h * 60 + mn).value
            /\ (h = 0 /\ mn = 0) => call.value = <<Head(all_words)>>
            /\ (h = 23 /\ mn = 59) => call.value = <<all_words[1439 + 1]>>

C3_Witness ==
    /\ IsGetWord
    /\ call.args = <<23, 59>>
    /\ call.exc = "None"
    /\ call.value = <<all_words[1440]>>

\* C4: permuted_mapping[p] returned by create_permuted_mapping is a bijection
\* on [0, len(word_banks[p])) for each of the 5 positions, and so is perm
\* after every swap of the shuffle loop.
C4_PermutationValid ==
    /\ pc = "shuffle" => IsBijection(perm, Len(word_banks[pos + 1]))
    /\ pc \in {"for_pos", "shuffle"} =>
           \A p \in 1..Len(mapping) : IsBijection(mapping[p], Len(word_banks[p]))
    /\ pc \in {"build", "ready"} =>
           /\ Len(permuted_mapping) = 5
           /\ \A p \in 1..5 : IsBijection(permuted_mapping[p], Len(word_banks[p]))

C4_Witness ==
    /\ pc = "build"
    /\ Len(permuted_mapping) = 5
    /\ \A p \in 1..5 : permuted_mapping[p] # ListRange(Len(word_banks[p]))

\* C5: in minute_to_scrambled_word, for every minute and position, idx is in
\* [0, len(word_banks[p])) and perm[idx] is a valid index into word_banks[p]:
\* neither list access goes out of bounds.
C5_BoundedSelection ==
    IsScramble =>
        /\ call.exc = "None"
        /\ Len(call.idxs) = 5
        /\ \A p \in 1..5 :
               /\ call.idxs[p] \in 0..(Len(word_banks[p]) - 1)
               /\ call.idxs[p] < Len(permuted_mapping[p])
               /\ permuted_mapping[p][call.idxs[p] + 1] \in 0..(Len(word_banks[p]) - 1)

C5_Witness ==
    /\ IsScramble
    /\ call.exc = "None"
    /\ \E p \in 1..5 : call.idxs[p] = Len(word_banks[p]) - 1
    /\ \E p \in 1..5 : call.idxs[p] = 0

\* a step of the build loop visits the minute after the one visited before,
\* and appends that minute's label after the labels already there
C6_LoopStep ==
    (pc = "build" /\ pc' = "build") =>
        /\ Len(all_words) = minute
        /\ minute' = minute + 1
        /\ call'.args = <<minute>>
        /\ Len(all_words') = Len(all_words) + 1
        /\ SubSeq(all_words', 1, Len(all_words)) = all_words
        /\ <<all_words'[minute + 1]>> = minute_to_scrambled_word(minute).value

\* the build loop starts at minute 0 with an empty table
C6_LoopStart ==
    (pc # "build" /\ pc' = "build") => (minute' = 0 /\ all_words' = <<>>)

\* the build loop ends after minute 1439, with the label of every minute at
\* its index, whether the build ran one iteration at a time or in one step
C6_LoopEnd ==
    /\ (pc = "build" /\ pc' # "build") => pc' = "ready"
    /\ (pc # "ready" /\ pc' = "ready") =>
        /\ minute' = 1440
        /\ Len(all_words') = 1440
        /\ \A m \in 0..1439 :
               <<all_words'[m + 1]>> = Scrambled(word_banks', permuted_mapping', m).value

\* C6: the build visits minute = 0, 1, ..., 1439 in ascending order once each
\* and appends one label per minute; at every step all_words is exactly the
\* labels of minutes 0..k-1, and at the end len(all_words) = 1440 with
\* all_words[m] = minute_to_scrambled_word(m) for every m.
C6_TableBuild == [][C6_LoopStart /\ C6_LoopStep /\ C6_LoopEnd]_vars

C6_Witness ==
    /\ pc = "ready"
    /\ call = NoCall
    /\ minute = 1440
    /\ Len(all_words) = 1440

\* C7: the label is exactly five words joined by "<br>" in position order,
\* the word at position p being
\* word_banks[p][permuted_mapping[p][val(minute,p) mod len(word_banks[p])]];
\* the k-th word of the label is a member of word_banks[k].
C7_LabelShape ==
    IsScramble =>
        LET mn == call.args[1]
            word(p) == word_banks[p][permuted_mapping[p][
                           ModN(ValTable[mn][p - 1], Len(word_banks[p])) + 1] + 1]
        IN  /\ call.exc = "None"
            /\ call.value = <<word(1) \o "<br>" \o word(2) \o "<br>" \o word(3)
                                \o "<br>" \o word(4) \o "<br>" \o word(5)>>
            /\ Split(call.value[1], "<br>") = <<word(1), word(2), word(3), word(4), word(5)>>
            /\ \A k \in 1..5 : \E j \in 1..Len(word_banks[k]) : word(k) = word_banks[k][j]

C7_Witness ==
    /\ IsScramble
    /\ call.args = <<1439>>
    /\ call.exc = "None"
    /\ Len(Split(call.value[1], "<br>")) = 5

\* C8: for every minute and position the transform value is an unsigned
\* 32-bit integer (also for positions 2 and 4, which carry no mask); for
\* position 0 it is the product reduced modulo 2^32 and for position 3 the
\* product plus increment reduced modulo 2^32.
C8_Val32 ==
    IsScramble =>
        LET mn == IntToBytes(call.args[1])
            prod0 == Mul(mn, K_6D2B79F5)
            lcg3 == Add(Mul(mn, K_19660D), K_3C6EF35F)
        IN  /\ Len(call.vals) = 5
            /\ \A p \in 1..5 :
                   /\ Len(call.vals[p]) <= 4
                   /\ \A j \in 1..Len(call.vals[p]) : call.vals[p][j] \in 0..255
            /\ prod0 = Add(call.vals[1], Shl(Shr(prod0, 32), 32))
            /\ lcg3 = Add(call.vals[4], Shl(Shr(lcg3, 32), 32))

C8_Witness ==
    /\ IsScramble
    /\ Len(call.vals) = 5
    /\ Len(Mul(IntToBytes(call.args[1]), K_6D2B79F5)) > 4
    /\ Len(call.vals[1]) = 4
    /\ Len(call.vals[4]) = 4

\* C9: the position-1 value is the true 32-bit left rotation of minute by 13
\* bits: bit k of the value is bit (k - 13) mod 32 of minute, for k in 0..31,
\* and there is no bit above bit 31.
C9_Rotl13 ==
    (IsScramble /\ Len(call.vals) >= 2) =>
        /\ Len(call.vals[2]) <= 4
        /\ \A k \in 0..31 :
               Bit(call.vals[2], k) = Bit(IntToBytes(call.args[1]), (k + 19) % 32)

C9_Witness ==
    /\ IsScramble
    /\ call.args = <<1439>>
    /\ Len(call.vals) >= 2
    /\ Bit(call.vals[2], 23) = 1
    /\ Bit(call.vals[2], 13) = 1

\* C10: after construction, calls of get_word and minute_to_scrambled_word by
\* any reader leave word_banks, permuted_mapping and all_words unchanged, and
\* a call with a valid argument returns the entry the table holds for it,
\* whatever calls came before.
C10_ReadOnly ==
    [][(pc = "ready" /\ pc' = "ready") =>
          /\ word_banks' = word_banks
          /\ permuted_mapping' = permuted_mapping
          /\ all_words' = all_words
          /\ (call'.fn = "minute_to_scrambled_word") =>
                 call'.value = <<all_words[call'.args[1] + 1]>>
          /\ (call'.fn = "get_word" /\ ValidTime(call'.args[1], call'.args[2])) =>
                 call'.value = <<all_words[call'.args[1] * 60 + call'.args[2] + 1]>>
      ]_vars

C10_Witness ==
    /\ pc = "ready"
    /\ call.caller = NumReaders
    /\ IsScramble
    /\ call.exc = "None"
    /\ prev.set

\* the shuffle of a bank of size n starts at i = n - 1 on the identity list
C11_ShuffleStart ==
    (pc = "for_pos" /\ pc' = "shuffle") =>
        /\ i' = Len(word_banks[pos + 1]) - 1
        /\ perm' = [k \in 1..Len(word_banks[pos + 1]) |-> k - 1]
        /\ Len(hash_val') = 16

\* one step of the shuffle is the swap of perm[i] with perm[j],
\* j = hash_val[i mod 16] mod (i + 1), and goes on to i - 1
C11_ShuffleSwap ==
    (pc = "shuffle" /\ pc' = "shuffle") =>
        /\ i \in 1..(Len(perm) - 1)
        /\ i' = i - 1
        /\ (i % 16) + 1 \in 1..Len(hash_val)
        /\ hash_val[(i % 16) + 1] % (i + 1) \in 0..i
        /\ perm' = [perm EXCEPT ![i + 1] = perm[(hash_val[(i % 16) + 1] % (i + 1)) + 1],
                                ![(hash_val[(i % 16) + 1] % (i + 1)) + 1] = perm[i + 1]]
        /\ i >= 16 =>
               hash_val[(i % 16) + 1] % (i + 1) = hash_val[((i - 16) % 16) + 1] % (i + 1)

\* the shuffle ends after the step at i = 1, so after n - 1 swaps
C11_ShuffleEnd ==
    (pc = "shuffle" /\ pc' # "shuffle") =>
        /\ i = 0
        /\ pc' = "for_pos"
        /\ mapping' = Append(mapping, perm)

\* C11: for a bank of size n the shuffle performs exactly n-1 swaps, for
\* i = n-1 down to 1 in that order; the target of the swap at i is
\* j = hash_val[i mod 16] mod (i+1), so 0 <= j <= i, the byte index is inside
\* the 16-byte digest, and for i >= 16 the digest is read cyclically.
C11_ShuffleOrder == [][C11_ShuffleStart /\ C11_ShuffleSwap /\ C11_ShuffleEnd]_vars

C11_Witness ==
    /\ pc = "shuffle"
    /\ Len(perm) = 24
    /\ i = 15
    /\ perm # [k \in 1..24 |-> k - 1]

\* a step of the build appends the label and adds it to the set, whether or
\* not the set already holds it
C12_BuildAdds ==
    (pc = "build" /\ pc' = "build") =>
        /\ Len(all_words') = Len(all_words) + 1
        /\ unique_check' = unique_check \cup {all_words'[Len(all_words')]}

\* during and at the end of the build the set is the set of the values of
\* all_words, and the build ends with 1440 entries
C12_SetOfValues ==
    /\ (pc' = "build" \/ (pc # "ready" /\ pc' = "ready")) =>
           unique_check' = {all_words'[m] : m \in 1..Len(all_words')}
    /\ (pc # "ready" /\ pc' = "ready") => Len(all_words') = 1440

\* after the build nothing touches the set, and what get_word returns is
\* read from all_words alone
C12_NeverRead ==
    (pc = "ready" /\ pc' = "ready") =>
        /\ unique_check' = unique_check
        /\ all_words' = all_words
        /\ (call'.fn = "get_word" /\ call'.exc = "None") =>
               \E m \in 1..Len(all_words) : call'.value = <<all_words[m]>>
        /\ (call'.fn = "get_word" /\ ValidTime(call'.args[1], call'.args[2])) =>
               call'.value = <<all_words[call'.args[1] * 60 + call'.args[2] + 1]>>

\* C12: unique_check is inert: it is only added to during the build and
\* never read, all_words and every get_word result do not depend on it, the
\* build completes with 1440 entries, and at the end unique_check is exactly
\* the set of distinct values in all_words.
C12_UniqueInert == [][C12_BuildAdds /\ C12_SetOfValues /\ C12_NeverRead]_vars

C12_Witness ==
    /\ pc = "ready"
    /\ IsGetWord
    /\ call.exc = "None"
    /\ Len(all_words) = 1440
    /\ Cardinality(unique_check) = 1440

\* C13: the labels of adjacent minutes differ, all_words[m] # all_words[m+1]
\* for m in 0..1438: the position-1 index moves by 8 modulo 22 from one
\* minute to the next, the words of a bank are pairwise distinct and no word
\* contains the separator.
C13_AdjacentDiffer ==
    /\ (pc = "build" /\ Len(all_words) >= 2) =>
           /\ all_words[Len(all_words) - 1] # all_words[Len(all_words)]
           /\ call.idxs[2] = (((8 * (call.args[1] - 1)) % 22) + 8) % 22
           /\ Split(all_words[Len(all_words) - 1], "<br>")[2]
                  # Split(all_words[Len(all_words)], "<br>")[2]
    /\ (pc = "build" /\ Len(all_words) = 0) =>
           \A p \in 1..5 :
               /\ Cardinality({word_banks[p][k] : k \in 1..Len(word_banks[p])})
                      = Len(word_banks[p])
               /\ \A k \in 1..Len(word_banks[p]) : Find(word_banks[p][k], "<br>", 1) = 0
    /\ (pc = "ready" /\ call = NoCall) =>
           \A m \in 1..(Len(all_words) - 1) : all_words[m] # all_words[m + 1]

C13_Witness ==
    /\ pc = "ready"
    /\ call = NoCall
    /\ Len(all_words) = 1440
    /\ all_words[1439] # all_words[1440]
    /\ Split(all_words[1439], "<br>")[2] # Split(all_words[1440], "<br>")[2]

\* C14: for every minute the position-1 index is (8 * minute) mod 22, so it
\* is even; over the whole table it takes exactly the 11 even values of
\* 0..21, so exactly 11 of the 22 words of word_banks[1] appear in a label.
C14_EvenIndex ==
    /\ (IsScramble /\ Len(call.idxs) >= 2) =>
           /\ call.idxs[2] = (8 * call.args[1]) % 22
           /\ call.idxs[2] % 2 = 0
    /\ (pc = "ready" /\ call = NoCall) =>
           /\ Len(word_banks[2]) = 22
           /\ {Scrambled(word_banks, permuted_mapping, m).idxs[2] : m \in 0..1439}
                  = {2 * k : k \in 0..10}
           /\ {Split(all_words[m], "<br>")[2] : m \in 1..Len(all_words)}
                  = {word_banks[2][permuted_mapping[2][2 * k + 1] + 1] : k \in 0..10}
           /\ Cardinality({Split(all_words[m], "<br>")[2] : m \in 1..Len(all_words)}) = 11
           /\ Cardinality({word_banks[2][k] : k \in 1..22}
                          \ {Split(all_words[m], "<br>")[2] : m \in 1..Len(all_words)}) = 11

C14_Witness ==
    /\ pc = "ready"
    /\ call = NoCall
    /\ Len(all_words) = 1440
    /\ \E m \in 1..1440 : Split(all_words[m], "<br>")[2] = word_banks[2][permuted_mapping[2][21] + 1]

(***************************************************************************)
(* generate.py: the catalog rescan.  main() loads data.json, walks every   *)
(* folder of AUDIO_ROOT and saves the merged catalog.                      *)
(*                                                                         *)
(* A JSON null is <<>> and any other value of a field that may be null is  *)
(* <<v>>; a JSON object is a function on its keys; an entry of a titles or *)
(* sources list is tagged with whether it is a list or a string.  Paths    *)
(* are POSIX paths: os.sep is "/".                                         *)
(***************************************************************************)
None == <<>>

Some(v) == <<v>>

\* k in d
Has(d, k) == k \in DOMAIN d

\* d[k] = v
Put(d, k, v) == [x \in DOMAIN d \cup {k} |-> IF x = k THEN v ELSE d[x]]

\* del d[k]
Del(d, k) == [x \in DOMAIN d \ {k} |-> d[x]]

\* d.setdefault(k, v)
SetDefault(d, k, v) == IF Has(d, k) THEN d ELSE Put(d, k, v)

\* the list [b, x]
Pair(b, x) == [islist |-> TRUE, items |-> <<b, x>>]

\* the string x where a list is expected (the old catalog format)
Bare(x) == [islist |-> FALSE, str |-> x]

UpperChars == "ABCDEFGHIJKLMNOPQRSTUVWXYZ"

LowerChars == "abcdefghijklmnopqrstuvwxyz"

DigitChars == "0123456789"

\* the place of the character c in chars, or 0
CharIndex(chars, c) ==
    IF \E k \in 1..Len(chars) : SubSeq(chars, k, k) = c
    THEN CHOOSE k \in 1..Len(chars) : SubSeq(chars, k, k) = c
    ELSE 0

RECURSIVE Lower(_)
\* str.lower()
Lower(str) ==
    IF str = "" THEN ""
    ELSE (IF CharIndex(UpperChars, SubSeq(str, 1, 1)) > 0
          THEN SubSeq(LowerChars, CharIndex(UpperChars, SubSeq(str, 1, 1)),
                      CharIndex(UpperChars, SubSeq(str, 1, 1)))
          ELSE SubSeq(str, 1, 1))
         \o Lower(SubSeq(str, 2, Len(str)))

\* str.startswith(prefix)
StartsWith(str, prefix) ==
    Len(str) >= Len(prefix) /\ SubSeq(str, 1, Len(prefix)) = prefix

\* str.endswith(suffix)
EndsWith(str, suffix) ==
    Len(str) >= Len(suffix) /\ SubSeq(str, Len(str) - Len(suffix) + 1, Len(str)) = suffix

RECURSIVE ReplaceChar(_, _, _)
\* str.replace(old, new) for a one-character old
ReplaceChar(str, old, new) ==
    IF str = "" THEN ""
    ELSE (IF SubSeq(str, 1, 1) = old THEN new ELSE SubSeq(str, 1, 1))
         \o ReplaceChar(SubSeq(str, 2, Len(str)), old, new)

RECURSIVE Strip(_)
\* str.strip() of a string whose only whitespace is the space
Strip(str) ==
    IF str = "" THEN ""
    ELSE IF SubSeq(str, 1, 1) = " " THEN Strip(SubSeq(str, 2, Len(str)))
    ELSE IF SubSeq(str, Len(str), Len(str)) = " " THEN Strip(SubSeq(str, 1, Len(str) - 1))
    ELSE str

\* str.isdigit()
IsDigit(str) ==
    /\ str # ""
    /\ \A k \in 1..Len(str) : CharIndex(DigitChars, SubSeq(str, k, k)) > 0

RECURSIVE ParseInt(_)
\* int(str) of a string of digits
ParseInt(str) ==
    IF str = "" THEN 0
    ELSE ParseInt(SubSeq(str, 1, Len(str) - 1)) * 10
         + CharIndex(DigitChars, SubSeq(str, Len(str), Len(str))) - 1

\* os.path.join(a, b) for a relative b
PathJoin(a, b) == a \o "/" \o b

(***************************************************************************)
(* The files that may lie under AUDIO_ROOT, each a path of names, and what *)
(* mutagen.File reads from each.                                           *)
(***************************************************************************)
AudioPool ==
    { <<"X", "c.MP3">>, <<"X", "a", "b.mp3">>, <<"X", "a\\b.mp3">>,
      <<"Y", "y.flac">>, <<"Y", "notes.txt">>, <<".hid", "z.mp3">>, <<"top.mp3">> }

\* mutagen.File(filepath, easy=True): the first value of each tag, or no tags
\* at all
Tags(path) ==
    IF path = <<"X", "c.MP3">>
        THEN [ok |-> TRUE, title |-> Some("Song C"), date |-> Some("2001-05-01"),
              year |-> None, artist |-> Some("Ann; Bob ,")]
    ELSE IF path = <<"Y", "y.flac">>
        THEN [ok |-> TRUE, title |-> None, date |-> None,
              year |-> Some("1990"), artist |-> None]
    ELSE IF path = <<"X", "a\\b.mp3">>
        THEN [ok |-> TRUE, title |-> Some("Song B"), date |-> Some("n.d."),
              year |-> None, artist |-> Some("Cy")]
    ELSE [ok |-> FALSE, title |-> None, date |-> None, year |-> None, artist |-> None]

RECURSIVE NonEmptyStripped(_)
\* line 21: [a.strip() for a in parts if a.strip()]
NonEmptyStripped(parts) ==
    IF parts = <<>> THEN <<>>
    ELSE (IF Strip(parts[1]) # "" THEN <<Strip(parts[1])>> ELSE <<>>)
         \o NonEmptyStripped(Tail(parts))

\* line 14: the date tag, or the year tag when the date is missing or empty
YearRaw(audio) ==
    IF audio.date # None /\ audio.date # Some("") THEN audio.date ELSE audio.year

\* lines 15-18: the first four characters of a year, when they are digits
ParseYear(year_raw) ==
    IF year_raw = None \/ year_raw = Some("") THEN None
    ELSE IF Len(year_raw[1]) >= 4 /\ IsDigit(SubSeq(year_raw[1], 1, 4))
        THEN Some(ParseInt(SubSeq(year_raw[1], 1, 4)))
    ELSE None

\* lines 14-18
YearOf(audio) == ParseYear(YearRaw(audio))

\* lines 19-21: the artists of the artist tag
ArtistsOf(audio) ==
    NonEmptyStripped(Split(ReplaceChar(IF audio.artist = None THEN "" ELSE audio.artist[1],
                                       ";", ","), ","))

\* lines 9-22
get_metadata(path) ==
    IF ~Tags(path).ok THEN [title |-> None, year |-> None, artists |-> <<>>]
    ELSE [title |-> Tags(path).title, year |-> YearOf(Tags(path)),
          artists |-> ArtistsOf(Tags(path))]

RECURSIVE JoinPath(_, _)
\* os.path.join applied along a path of names, starting at root
JoinPath(root, path) ==
    IF path = <<>> THEN root ELSE JoinPath(PathJoin(root, path[1]), Tail(path))

\* line 89: fpath.replace("\\", "/")
AudioFile(path) == ReplaceChar(JoinPath(".", path), "\\", "/")

\* line 82: the extensions main() takes for audio
IsAudio(fname) ==
    \E ext \in {".mp3", ".flac", ".wav", ".ogg", ".m4a"} : EndsWith(Lower(fname), ext)

\* lines 86-92: the entry of a file found by the walk
NewSong(path, meta) ==
    [titles |-> IF meta.title # None /\ meta.title # Some("")
                THEN <<Pair(TRUE, meta.title[1])>> ELSE <<>>,
     sources |-> [k \in 1..Len(meta.artists) |-> Pair(TRUE, meta.artists[k])],
     audioFile |-> AudioFile(path),
     startTime |-> None,
     year |-> meta.year]

RECURSIVE FoundSongs(_)
\* lines 80-92: the entries of the audio files among the files walked, in the
\* order of the walk
FoundSongs(walked) ==
    IF walked = <<>> THEN <<>>
    ELSE (IF IsAudio(walked[1][Len(walked[1])])
          THEN <<NewSong(walked[1], get_metadata(walked[1]))>> ELSE <<>>)
         \o FoundSongs(Tail(walked))

\* line 94: the sort key
YearKey(song) == IF song.year = None THEN 0 ELSE song.year[1]

RECURSIVE InsertByYear(_, _)
\* song put after the entries whose key is not smaller
InsertByYear(sorted, song) ==
    IF sorted = <<>> THEN <<song>>
    ELSE IF YearKey(sorted[1]) >= YearKey(song)
        THEN <<sorted[1]>> \o InsertByYear(Tail(sorted), song)
    ELSE <<song>> \o sorted

RECURSIVE SortByYear(_)
\* line 94: songs.sort(key=..., reverse=True), a stable sort
SortByYear(songs) ==
    IF songs = <<>> THEN <<>>
    ELSE InsertByYear(SortByYear(SubSeq(songs, 1, Len(songs) - 1)), songs[Len(songs)])

(***************************************************************************)
(* os.listdir and os.walk give the entries of a directory in an order the  *)
(* file system chooses: every order is possible.                           *)
(***************************************************************************)
\* the sequences that list every element of S once
Orders(S) ==
    {o \in [1..Cardinality(S) -> S] :
        \A a, b \in 1..Cardinality(S) : a # b => o[a] # o[b]}

\* the files directly in directory d
FilesIn(tree, d) ==
    {f \in tree : Len(f) = Len(d) + 1 /\ SubSeq(f, 1, Len(d)) = d}

\* the directories directly in directory d
DirsIn(tree, d) ==
    {SubSeq(f, 1, Len(d) + 1) :
        f \in {g \in tree : Len(g) > Len(d) + 1 /\ SubSeq(g, 1, Len(d)) = d}}

RECURSIVE WalkOrders(_, _)
RECURSIVE WalkDirs(_, _)
\* line 80: the orders in which os.walk(d) may yield the files under d: the
\* files of d, then the walks of its directories
WalkOrders(tree, d) ==
    {fo \o so : fo \in Orders(FilesIn(tree, d)),
                so \in UNION {WalkDirs(tree, ds) : ds \in Orders(DirsIn(tree, d))}}

\* the walks of the directories ds one after the other
WalkDirs(tree, ds) ==
    IF Len(ds) = 0 THEN {<<>>}
    ELSE {a \o b : a \in WalkOrders(tree, ds[1]), b \in WalkDirs(tree, Tail(ds))}

\* line 75: the names in AUDIO_ROOT
TopNames(tree) == {f[1] : f \in tree}

\* line 77: os.path.isdir
IsDir(tree, name) == \E f \in tree : Len(f) > 1 /\ f[1] = name

\* lines 75-78: the folders main() walks
Folders(tree) == {name \in TopNames(tree) : IsDir(tree, name) /\ ~StartsWith(name, ".")}

(***************************************************************************)
(* load_collections, lines 24-66.                                          *)
(***************************************************************************)
\* lines 31-33: an old "title" becomes "titles"
MigrateTitle(song) ==
    IF Has(song, "title") /\ ~Has(song, "titles")
    THEN Del(Put(song, "titles", <<Pair(TRUE, song.title)>>), "title")
    ELSE song

\* lines 35-37: titles that are bare strings become lists
MigrateTitles(song) ==
    IF Has(song, "titles") /\ Len(song.titles) > 0 /\ ~song.titles[1].islist
    THEN Put(song, "titles",
             [k \in 1..Len(song.titles) |->
                 Pair(TRUE, IF song.titles[k].islist THEN song.titles[k].items
                            ELSE song.titles[k].str)])
    ELSE song

\* lines 54-56: old "artists" become "sources"
MigrateArtists(song) ==
    IF Has(song, "artists") /\ ~Has(song, "sources")
    THEN Del(Put(song, "sources",
                 [k \in 1..Len(song.artists) |-> Pair(TRUE, song.artists[k])]),
             "artists")
    ELSE song

\* lines 57-61: the defaults of a song
SongDefaults(song) ==
    SetDefault(SetDefault(SetDefault(SetDefault(SetDefault(song,
        "sources", <<>>), "titles", <<>>), "audioFile", ""), "startTime", None),
        "year", None)

\* lines 30-37 and 52-61: what the two loops over the songs do to one song
LoadSong(song) == SongDefaults(MigrateArtists(MigrateTitles(MigrateTitle(song))))

\* lines 39-46: the defaults of a collection
CollectionDefaults(c) ==
    SetDefault(SetDefault(SetDefault(SetDefault(SetDefault(SetDefault(SetDefault(
        SetDefault(c, "title", None), "description", None), "difficulty", None),
        "gameStyle", 1), "disabledLifelines", <<>>), "sourceName", None),
        "author", None), "covers", <<>>)

\* lines 48-50: an old guessSongOnly becomes gameStyle
MigrateGameStyle(c) ==
    IF Has(c, "guessSongOnly")
    THEN Del(Put(c, "gameStyle", IF c.guessSongOnly THEN 3 ELSE 1), "guessSongOnly")
    ELSE c

\* line 63: the keys of a collection, "songs" last
CollectionKeys ==
    {"id", "title", "description", "difficulty", "gameStyle", "disabledLifelines",
     "sourceName", "author", "covers", "songs"}

\* lines 29-64: one collection as load_collections returns it
LoadCollection(c) ==
    [k \in CollectionKeys |->
        IF k = "songs" THEN [j \in 1..Len(c.songs) |-> LoadSong(c.songs[j])]
        ELSE MigrateGameStyle(CollectionDefaults(c))[k]]

\* lines 24-66
load_collections(file) ==
    IF file.exists
    THEN [k \in 1..Len(file.collections) |-> LoadCollection(file.collections[k])]
    ELSE <<>>

\* lines 68-70
save_collections(collections) == [exists |-> TRUE, collections |-> collections]

(***************************************************************************)
(* main, lines 72-130.                                                     *)
(***************************************************************************)
\* lines 95-106: the collection of a folder not in the catalog
CollectionData(folder, songs) ==
    [id |-> folder, title |-> None, description |-> None, difficulty |-> None,
     gameStyle |-> 1, disabledLifelines |-> <<>>, sourceName |-> None,
     author |-> None, covers |-> <<>>, songs |-> songs]

RECURSIVE MergeSongs(_, _)
\* lines 121-125: the new songs whose audioFile is not present yet are
\* appended to the existing songs
MergeSongs(existing_songs, songs) ==
    IF songs = <<>> THEN existing_songs
    ELSE MergeSongs(
             IF \E k \in 1..Len(existing_songs) :
                    existing_songs[k].audioFile = songs[1].audioFile
             THEN existing_songs
             ELSE Append(existing_songs, songs[1]),
             Tail(songs))

\* the collection of the folder built anew, nothing taken from the catalog
Overwritten(c, folder, songs) == CollectionData(folder, songs)

\* lines 112-126: the collection of a folder already in the catalog
Preserved(c, folder, songs) ==
    [id |-> folder, title |-> c.title, description |-> c.description,
     difficulty |-> c.difficulty, gameStyle |-> c.gameStyle,
     disabledLifelines |-> c.disabledLifelines, sourceName |-> c.sourceName,
     author |-> c.author, covers |-> c.covers,
     songs |-> MergeSongs(c.songs, songs)]

\* lines 109-110: the first collection whose id is the folder
FirstWithId(collections, folder) ==
    CHOOSE k \in 1..Len(collections) :
        /\ collections[k].id = folder
        /\ \A j \in 1..(k - 1) : collections[j].id # folder

\* lines 93-129: the catalog after a folder with the songs found in it
UpdateFolder(collections, existing, folder, songs) ==
    IF songs = <<>> THEN collections
    ELSE IF folder \in existing
        THEN [collections EXCEPT ![FirstWithId(collections, folder)] =
                 Preserved(collections[FirstWithId(collections, folder)], folder,
                           SortByYear(songs))]
    ELSE Append(collections, CollectionData(folder, SortByYear(songs)))

RECURSIVE MainLoop(_, _, _, _, _)
\* lines 75-129: the loop over the names of AUDIO_ROOT listed in the order
\* names, walks[folder] being the order in which os.walk yields its files
MainLoop(collections, existing, tree, names, walks) ==
    IF names = <<>> THEN collections
    ELSE IF ~IsDir(tree, names[1]) \/ StartsWith(names[1], ".")
        THEN MainLoop(collections, existing, tree, Tail(names), walks)
    ELSE MainLoop(UpdateFolder(collections, existing, names[1],
                               FoundSongs(walks[names[1]])),
                  existing, tree, Tail(names), walks)

\* lines 73-74: the ids of the catalog
ExistingIds(collections) == {collections[k].id : k \in 1..Len(collections)}

\* lines 72-130: the file main() writes
main(file, tree, names, walks) ==
    save_collections(MainLoop(load_collections(file),
                              ExistingIds(load_collections(file)), tree, names, walks))

\* the choices of a walk order for every folder
WalkChoices(tree) ==
    {w \in [Folders(tree) -> UNION {WalkOrders(tree, <<f>>) : f \in Folders(tree)}] :
        \A f \in Folders(tree) : w[f] \in WalkOrders(tree, <<f>>)}

(***************************************************************************)
(* The catalogs data.json may hold before the first run.                   *)
(***************************************************************************)
\* a catalog edited by hand, with a collection in the old format whose folder
\* is gone
EditedCatalog ==
    [exists |-> TRUE,
     collections |-> <<
        [id |-> "X", title |-> Some("My X"), description |-> Some("mine"),
         difficulty |-> Some(2), gameStyle |-> 2, disabledLifelines |-> <<"skip">>,
         sourceName |-> Some("cd"), author |-> Some("me"), covers |-> <<"x.png">>,
         songs |-> <<[titles |-> <<Pair(TRUE, "Old C")>>, sources |-> <<>>,
                      audioFile |-> "./X/c.MP3", startTime |-> Some(5),
                      year |-> Some(1980)]>>],
        [id |-> "Gone", guessSongOnly |-> TRUE,
         songs |-> <<[title |-> "G", artists |-> <<"Zed">>, audioFile |-> "./Gone/g.mp3"],
                     [titles |-> <<Bare("H")>>, audioFile |-> "./Gone/h.mp3"]>>],
        [id |-> "Y", author |-> Some("you"), songs |-> <<>>] >>]

InitialCatalogs ==
    {[exists |-> FALSE, collections |-> <<>>],
     [exists |-> TRUE, collections |-> <<>>],
     EditedCatalog}

InitCatalog ==
    /\ data_json \in InitialCatalogs
    /\ audio_tree = {}
    /\ runs = 0
    /\ last_run = [ran |-> FALSE, tree_unchanged |-> FALSE]
    /\ TimeIdle
    /\ DirectoryIdle

\* a run of main(), lines 72-130
Main ==
    /\ runs < MaxRuns
    /\ \E names \in Orders(TopNames(audio_tree)), walks \in WalkChoices(audio_tree) :
         /\ data_json' = main(data_json, audio_tree, names, walks)
         /\ last_run' = [ran |-> TRUE, tree_unchanged |-> TRUE]
    /\ runs' = runs + 1
    /\ UNCHANGED <<audio_tree, vars, directory_vars>>

\* somebody puts a file under AUDIO_ROOT
CreateFile ==
    /\ Cardinality(audio_tree) < MaxFiles
    /\ \E f \in AudioPool \ audio_tree : audio_tree' = audio_tree \cup {f}
    /\ last_run' = [last_run EXCEPT !.tree_unchanged = FALSE]
    /\ UNCHANGED <<data_json, runs, vars, directory_vars>>

\* somebody removes a file from under AUDIO_ROOT
DeleteFile ==
    /\ \E f \in audio_tree : audio_tree' = audio_tree \ {f}
    /\ last_run' = [last_run EXCEPT !.tree_unchanged = FALSE]
    /\ UNCHANGED <<data_json, runs, vars, directory_vars>>

NextCatalog ==
    \/ Main
    \/ CreateFile
    \/ DeleteFile

SpecCatalog == InitCatalog /\ [][NextCatalog]_catalog_vars

\* what a collection of the catalog holds besides its songs
Metadata(c) ==
    <<c.id, c.title, c.description, c.difficulty, c.gameStyle, c.disabledLifelines,
      c.sourceName, c.author, c.covers>>

\* the folder of the collection id is walked and holds an audio file
FolderHasAudio(tree, id) ==
    /\ ~StartsWith(id, ".")
    /\ \E f \in tree : Len(f) > 1 /\ f[1] = id /\ IsAudio(f[Len(f)])

\* the saved catalog new keeps the loaded catalog old: every collection at
\* its place with its metadata, its songs first and unchanged, only songs
\* that were not there appended
Keeps(old, new, tree) ==
    /\ Len(new) >= Len(old)
    /\ \A k \in 1..Len(old) :
           /\ Metadata(new[k]) = Metadata(old[k])
           /\ DOMAIN new[k] = DOMAIN old[k]
           /\ Len(new[k].songs) >= Len(old[k].songs)
           /\ SubSeq(new[k].songs, 1, Len(old[k].songs)) = old[k].songs
           /\ \A j \in (Len(old[k].songs) + 1)..Len(new[k].songs) :
                  \A e \in 1..Len(old[k].songs) :
                      new[k].songs[j].audioFile # old[k].songs[e].audioFile
           /\ ~FolderHasAudio(tree, old[k].id) => new[k] = old[k]

\* C15: a rescan by main() never loses catalog data: every collection that
\* load_collections returns is saved with the same id, title, description,
\* difficulty, gameStyle, disabledLifelines, sourceName, author and covers,
\* its songs list starts with the previous songs unchanged and in order, only
\* newly found songs are appended, a collection whose folder has no audio
\* file or is gone is saved unchanged, and no collection is removed.
C15_RescanKeeps ==
    [][(runs' = runs + 1) =>
          /\ data_json'.exists
          /\ Keeps(load_collections(data_json), data_json'.collections, audio_tree)
      ]_catalog_vars

C15_Witness ==
    /\ last_run.ran
    /\ Len(data_json.collections) = 3
    /\ data_json.collections[1].id = "X"
    /\ data_json.collections[1].title = Some("My X")
    /\ Len(data_json.collections[1].songs) = 2
    /\ data_json.collections[1].songs[1].startTime = Some(5)
    /\ data_json.collections[2].id = "Gone"
    /\ data_json.collections[2].gameStyle = 3

\* no two songs of a collection have the same audioFile, and no two
\* collections the same id
NoDuplicates(collections) ==
    /\ \A k \in 1..Len(collections) :
           \A a, b \in 1..Len(collections[k].songs) :
               a # b => collections[k].songs[a].audioFile # collections[k].songs[b].audioFile
    /\ \A a, b \in 1..Len(collections) : a # b => collections[a].id # collections[b].id

\* C16: after any number of runs of main() no collection holds two songs with
\* the same audioFile and no two collections share an id (the first
\* data.json having none), and a second run over an unchanged audio tree
\* appends nothing and writes the same data.json.
C16_NoDuplicatesIdempotent ==
    [][(runs' = runs + 1) =>
          /\ NoDuplicates(data_json'.collections)
          /\ (last_run.ran /\ last_run.tree_unchanged) => data_json' = data_json
      ]_catalog_vars

\* a second run over an unchanged audio tree writes what the first wrote
RescanIdempotent ==
    [][(runs' = runs + 1 /\ last_run.ran /\ last_run.tree_unchanged) =>
          data_json' = data_json
      ]_catalog_vars

(***************************************************************************)
(* build.py and generate_directory.py: the directory listing of the site.  *)
(* Both programs hold the same should_ignore and get_directory_structure;  *)
(* read_gitignore of build.py appends three patterns more.  Line numbers   *)
(* are those of build.py.                                                  *)
(***************************************************************************)
\* os.sep
Sep == "/"

\* Path(__file__).parent, the root the scan starts from (line 117)
ScriptDir == "/site"

\* the two programs that list the directory
Programs == {"build.py", "generate_directory.py"}

\* the files that may lie under the script directory, each a path of names
SitePool ==
    {<<"a", "b", "g.txt">>,
     <<"a", "b", "c", "f.txt">>,
     <<"x", "node", "n.txt">>,
     <<"a", "m.pyc">>,
     <<"b", "h.log">>}

\* the .gitignore files somebody may have written: a comment, an empty line,
\* a dir/* pattern and a wildcard; an exact path, a name with a trailing
\* slash and spaces around it, and wildcards with a path in them
GitignoreFiles ==
    {NoGitignore,
     [exists |-> TRUE, lines |-> <<"# output", "", "a/b/*", "*.log">>],
     [exists |-> TRUE, lines |-> <<"x/node", " b/ ", "a/*/c", "a/?.pyc">>]}

\* what os.listdir and os.path.isdir see: the files and the .gitignore file
Tree(files, gi) ==
    files \cup (IF gi.exists THEN {<<".gitignore">>} ELSE {})

\* line 18: default_ignores
DefaultIgnores == <<".git", "__pycache__", ".vscode", "*.pyc", ".DS_Store", "Thumbs.db">>

RECURSIVE GitignorePatterns(_)
\* lines 23-27: the stripped lines that are neither empty nor comments
GitignorePatterns(lines) ==
    IF lines = <<>> THEN <<>>
    ELSE LET line == Strip(lines[1])
         IN  (IF line # "" /\ ~StartsWith(line, "#") THEN <<line>> ELSE <<>>)
             \o GitignorePatterns(Tail(lines))

\* lines 12-33; generate_directory.py lines 12-29 has no lines 29-31
read_gitignore(program, gi) ==
    DefaultIgnores
    \o (IF gi.exists THEN GitignorePatterns(gi.lines) ELSE <<>>)
    \o (IF program = "build.py" THEN <<"_headers", ".htaccess", ".gitignore">> ELSE <<>>)

\* the names of a path written with os.sep
Parts(path) == Split(path, Sep)

RECURSIVE CommonLen(_, _)
\* how many leading names two paths share
CommonLen(a, b) ==
    IF a # <<>> /\ b # <<>> /\ a[1] = b[1] THEN 1 + CommonLen(Tail(a), Tail(b)) ELSE 0

\* os.path.relpath(path, start) of two normalised absolute paths
relpath(path, start) ==
    LET p == Parts(path)
        s == Parts(start)
        c == CommonLen(p, s)
        rel == [k \in 1..(Len(s) - c) |-> ".."] \o SubSeq(p, c + 1, Len(p))
    IN  IF rel = <<>> THEN "." ELSE Join(Sep, rel)

\* os.path.basename(path)
basename(path) == LET p == Parts(path) IN p[Len(p)]

RECURSIVE rstrip(_, _)
\* str.rstrip(ch) for a one-character ch
rstrip(str, ch) ==
    IF str # "" /\ EndsWith(str, ch) THEN rstrip(SubSeq(str, 1, Len(str) - 1), ch) ELSE str

RECURSIVE FnMatchFrom(_, _, _, _)
\* fnmatch of name from its character n on against pat from its character p
\* on, for a pattern of literal characters, * and ?
FnMatchFrom(name, pat, n, p) ==
    IF p > Len(pat) THEN n > Len(name)
    ELSE IF SubSeq(pat, p, p) = "*"
         THEN FnMatchFrom(name, pat, n, p + 1)
              \/ (n <= Len(name) /\ FnMatchFrom(name, pat, n + 1, p))
    ELSE /\ n <= Len(name)
         /\ (SubSeq(pat, p, p) = "?" \/ SubSeq(pat, p, p) = SubSeq(name, n, n))
         /\ FnMatchFrom(name, pat, n + 1, p + 1)

\* fnmatch.fnmatch(name, pat) where os.path.normcase changes nothing
fnmatch(name, pat) == FnMatchFrom(name, pat, 1, 1)

\* lines 41-55: one pattern against the relative path and the name of an item
PatternMatches(rel_path, item_name, pattern) ==
    LET clean_pattern == rstrip(pattern, "/")
    IN  IF EndsWith(clean_pattern, "/*")
        THEN LET dir_name == SubSeq(clean_pattern, 1, Len(clean_pattern) - 2)
             IN  rel_path = dir_name \/ StartsWith(rel_path, dir_name \o Sep)
        ELSE \/ rel_path = clean_pattern \/ item_name = clean_pattern
             \/ fnmatch(rel_path, clean_pattern) \/ fnmatch(item_name, clean_pattern)

\* lines 35-57
should_ignore(item_path, ignore_patterns, root_path) ==
    LET rel_path == relpath(item_path, root_path)
        item_name == basename(rel_path)
    IN  \E k \in 1..Len(ignore_patterns) :
            PatternMatches(rel_path, item_name, ignore_patterns[k])

\* the names below the script directory that a path leads through
Resolve(path) == SubSeq(Parts(path), Len(Parts(ScriptDir)) + 1, Len(Parts(path)))

\* the files of the tree below a directory
Below(tree, path) ==
    LET d == Resolve(path) IN {f \in tree : Len(f) > Len(d) /\ SubSeq(f, 1, Len(d)) = d}

\* os.listdir(path)
listdir(tree, path) == {f[Len(Resolve(path)) + 1] : f \in Below(tree, path)}

\* os.path.isdir(path)
isdir(tree, path) == Below(tree, path) # {}

RECURSIVE get_directory_structure(_, _, _)
\* lines 59-80: the nested dictionary, as the set of its entries, each with the
\* path that leads to it and whether its value is a dictionary (a directory)
\* or None (a file); the recursive call of line 75 passes item_path as the
\* root_path of the level below
get_directory_structure(tree, root_path, ignore_patterns) ==
    UNION {LET item_path == PathJoin(root_path, item)
           IN  IF should_ignore(item_path, ignore_patterns, root_path) THEN {}
               ELSE IF isdir(tree, item_path)
                    THEN {[path |-> item_path, dir |-> TRUE]}
                         \cup get_directory_structure(tree, item_path, ignore_patterns)
               ELSE {[path |-> item_path, dir |-> FALSE]}
           : item \in listdir(tree, root_path)}

InitDirectory ==
    /\ DirectoryIdle
    /\ TimeIdle
    /\ CatalogIdle

\* update_index_html up to line 121: the scan of the script directory, with
\* the patterns read_gitignore returns for it (line 62)
Scan(program) ==
    /\ scans < MaxScans
    /\ \E patterns \in {read_gitignore(program, gitignore)} :
         structure' = [ran |-> TRUE, program |-> program, patterns |-> patterns,
                       listed |-> get_directory_structure(Tree(fs, gitignore),
                                                          ScriptDir, patterns)]
    /\ scans' = scans + 1
    /\ UNCHANGED <<fs, gitignore, vars, catalog_vars>>

\* somebody puts a file under the script directory
CreateItem ==
    /\ Cardinality(fs) < MaxItems
    /\ \E f \in SitePool \ fs : fs' = fs \cup {f}
    /\ UNCHANGED <<gitignore, structure, scans, vars, catalog_vars>>

\* somebody removes a file from under the script directory
RemoveItem ==
    /\ \E f \in fs : fs' = fs \ {f}
    /\ UNCHANGED <<gitignore, structure, scans, vars, catalog_vars>>

\* somebody writes, rewrites or removes .gitignore
EditGitignore ==
    /\ \E gi \in GitignoreFiles \ {gitignore} : gitignore' = gi
    /\ UNCHANGED <<fs, structure, scans, vars, catalog_vars>>

NextDirectory ==
    \/ \E program \in Programs : Scan(program)
    \/ CreateItem
    \/ RemoveItem
    \/ EditGitignore

SpecDirectory == InitDirectory /\ [][NextDirectory]_directory_vars

\* the path the names below the script directory lead to
Under(names) == JoinPath(ScriptDir, names)

\* an item or a directory above it matches a pattern, taking its path
\* relative to the root of the scan
IgnoredFromRoot(item_path, ignore_patterns) ==
    \E k \in 1..Len(Resolve(item_path)) :
        should_ignore(Under(SubSeq(Resolve(item_path), 1, k)), ignore_patterns, ScriptDir)

\* C17: a scan lists no file or directory whose path relative to the scanned
\* root matches an ignore pattern (a default pattern, a .gitignore line, an
\* exact path, a dir/* pattern or a wildcard), at any depth, and lists
\* nothing below an ignored directory
C17_IgnoredOmitted ==
    structure.ran =>
        \A e \in structure.listed : ~IgnoredFromRoot(e.path, structure.patterns)

\* what does hold: nothing listed matches a pattern by its name alone, and
\* nothing directly in the root matches a pattern
NamesAndTopLevelOmitted ==
    structure.ran =>
        \A e \in structure.listed :
            /\ ~should_ignore(PathJoin(ScriptDir, basename(e.path)), structure.patterns,
                              ScriptDir)
            /\ Len(Resolve(e.path)) = 1 =>
                 ~should_ignore(e.path, structure.patterns, ScriptDir)

====
